---- MODULE Spec2Model ----
(***************************************************************************)
(* Parallel construction of the range min-max tree of a balanced           *)
(* parentheses sequence (st_create) and the forward search over it          *)
(* (leaves_check, fwd_search, find_close), after src/succinct_tree.c.       *)
(*                                                                          *)
(* The bit array B is described by its length n and by the number `wrap`    *)
(* of enclosing pairs: B = "(" ^ wrap . "()" ^ (n/2 - wrap) . ")" ^ wrap.   *)
(* wrap = n/2 is the path "(((...)))", wrap = 0 is "()()...()".             *)
(***************************************************************************)
EXTENDS Integers, Sequences, FiniteSets, TLC

\* ------------------------------------------------------------------ bounds
MaxChunks == 4      \* inputs have at most MaxChunks chunks of s bits
MaxP == 4           \* worker counts 1..MaxP
MaxWrap == 2        \* enclosing pairs 0..MaxWrap (and the path, n/2)

\* ------------------------------------------------------- program constants
s == 256            \* chunk size
k == 2              \* arity of the min-max tree

VARIABLES
  n,            \* length of B
  wrap,         \* shape of B (see above)
  build,        \* what the build makes of undefined behaviour
  num_threads,  \* __cilkrts_get_nworkers()
  pc,           \* position in the program: "start", "pass1", "pass3",
                \* "subtrees", "done", "exit"
  e_prime, m_prime, M_prime, n_prime,   \* the four arrays (memory cells)
  finished,     \* workers of the current parallel loop that have run
  writes,       \* <<worker, array, index>> written in the current loop
  reads,        \* <<worker, array, index>> read in the current loop
  oob,          \* accesses outside an object seen so far
  T,            \* lookup tables created
  exit_status,  \* -1 while the process runs, else the status given to exit
  stderr,       \* TRUE once a diagnostic was printed
  q,            \* last query: [op, i, d, ret, kind]
  snap          \* arrays of an earlier construction on the same B

vars == <<n, wrap, build, num_threads, pc, e_prime, m_prime, M_prime, n_prime,
          finished, writes, reads, oob, T, exit_status, stderr, q, snap>>

\* ------------------------------------------------------------- arithmetic
RECURSIVE pow(_, _)
pow(b, x) == IF x <= 0 THEN 1 ELSE b * pow(b, x - 1)

\* ceil(log(x)/log(k)) for x >= 1
RECURSIVE ceil_log(_, _)
ceil_log(x, h) == IF pow(k, h) >= x THEN h ELSE ceil_log(x, h + 1)

\* ceil((double)a / b)
ceil_div(a, b) == (a + b - 1) \div b

\* conversion to int16_t / int8_t (two's complement wrap-around)
ToInt16(x) == ((x + 32768) % 65536) - 32768
ToInt8(x) == ((x + 128) % 256) - 128

Min2(a, b) == IF a < b THEN a ELSE b
Max2(a, b) == IF a > b THEN a ELSE b

\* ------------------------------------------------------------ the input B
\* A bit array b = [n, wrap, pad]: the bit it holds at j, for 0 <= j < b.n.
Bit(b, j) ==
  IF j < b.wrap THEN 1
  ELSE IF j >= b.n - b.wrap THEN 0
  ELSE IF (j - b.wrap) % 2 = 0 THEN 1 ELSE 0

\* bit_array_get_bit(B, j): outside [0, n) the read is outside the contract
\* of the bit array and yields whatever the build finds there (b.pad).
bit_array_get_bit(b, j) == IF j >= 0 /\ j < b.n THEN Bit(b, j) ELSE b.pad

\* the builds: bits read past the end of B, cells read past the end of an
\* array, and the result of a shift by at least the width of the word.
Builds ==
  { [pad |-> 0, junk |-> 0, shift |-> "masked"],
    [pad |-> 1, junk |-> 3, shift |-> "zero"] }

\* values an int32_t function result may hold when no return was executed
GarbageInts == {-1, 0, 5}

\* lengths: two that st_create rejects, whole numbers of chunks, and one
\* with a last chunk of 88 bits
Lengths ==
  {4, s} \cup { c * s : c \in 2..MaxChunks } \cup { (MaxChunks - 1) * s + 88 }

Wraps(len) == { w \in 0..MaxWrap : 2 * w <= len } \cup { len \div 2 }

B == [n |-> n, wrap |-> wrap, pad |-> build.pad]

\* ------------------------------------------------- locals of st_create
NumChunks(len) == ceil_div(len, s)                       \* lines 89-91
Heigh(len) == ceil_log(NumChunks(len), 0)                \* line 95
Offset(len) == (pow(k, Heigh(len)) - 1) \div (k - 1)     \* line 96
ChunksPerThread(len, p) == ceil_div(NumChunks(len), p)   \* line 97

num_chunks == NumChunks(n)
heigh == Heigh(n)
offset == Offset(n)
chunks_per_thread == ChunksPerThread(n, num_threads)
p_level == ceil_log(num_threads, 0)                      \* line 198
num_subtrees == pow(k, p_level)                          \* line 200

\* Memory: the cells of an array, followed by the cells that lie behind it.
\* Cells behind the allocated length hold build.junk until written.
ECap == Max2(num_threads * chunks_per_thread, pow(k, heigh + 1))
MCap == Max2(offset + num_threads * chunks_per_thread,
             Max2(pow(k, heigh + 2), pow(k, p_level + 2)))

calloc(len, cap) == [i \in 0..(cap - 1) |-> IF i < len THEN 0 ELSE build.junk]

\* length of the object an array name stands for
LengthOf(arr) == IF arr = "e_prime" THEN num_chunks ELSE num_chunks + offset

\* the accesses among <<worker, array, index>> that lie outside the array
Outside(cells, mode, phase) ==
  { <<c[2], mode, phase>> :
      c \in { x \in cells : x[3] < 0 \/ x[3] >= LengthOf(x[2]) } }

Mem == [e |-> e_prime, m |-> m_prime, M |-> M_prime, n |-> n_prime]

NoQuery == [op |-> "none", i |-> 0, d |-> 0, ret |-> 0, kind |-> "none"]

\* everything but the input and the number of workers
InitRest ==
  /\ build \in Builds
  /\ pc = "start"
  /\ e_prime = << >> /\ m_prime = << >> /\ M_prime = << >> /\ n_prime = << >>
  /\ finished = {} /\ writes = {} /\ reads = {} /\ oob = {}
  /\ T = FALSE
  /\ exit_status = -1
  /\ stderr = FALSE
  /\ q = NoQuery
  /\ snap = << >>

Init ==
  /\ n \in Lengths
  /\ wrap \in Wraps(n)
  /\ num_threads \in 1..MaxP
  /\ InitRest

\* A long input: 2^16 parentheses, "(" 2^15 times then ")" 2^15 times, whose
\* excess reaches 2^15, one more than an int16_t holds; and a rejected one.
WideLen == pow(k, 16)

InitWide ==
  /\ n \in {4, WideLen}
  /\ wrap = n \div 2
  /\ num_threads \in 1..k
  /\ InitRest

\* ---------------------------------------------------------------- st_create
\* lines 74-101: the size check and the allocation
Create ==
  /\ pc = "start"
  /\ IF s >= n
       THEN /\ stderr' = TRUE
            /\ exit_status' = 0
            /\ pc' = "exit"
            /\ UNCHANGED <<e_prime, m_prime, M_prime, n_prime>>
       ELSE /\ e_prime' = calloc(num_chunks, ECap)
            /\ m_prime' = calloc(num_chunks + offset, MCap)
            /\ M_prime' = calloc(num_chunks + offset, MCap)
            /\ n_prime' = calloc(num_chunks + offset, MCap)
            /\ pc' = "pass1"
            /\ UNCHANGED <<stderr, exit_status>>
  /\ finished' = {} /\ writes' = {} /\ reads' = {}
  /\ UNCHANGED <<n, wrap, build, num_threads, oob, T, q, snap>>

\* lines 113-116
chunk_limit(len, p, thread) ==
  IF thread = p - 1 /\ NumChunks(len) % ChunksPerThread(len, p) # 0
    THEN NumChunks(len) % ChunksPerThread(len, p)
    ELSE ChunksPerThread(len, p)

\* lines 126-135
llimit_of(len, p, thread, chunk) ==
  thread * ChunksPerThread(len, p) * s + s * chunk

ulimit_of(len, p, thread, chunk) ==
  IF /\ thread = p - 1
     /\ chunk = chunk_limit(len, p, thread) - 1
     /\ len % (NumChunks(len) * s) # 0
    THEN len
    ELSE IF len < s THEN len
         ELSE thread * ChunksPerThread(len, p) * s + s * (chunk + 1)

\* lines 139-161: the body of the loop over the symbols of a chunk,
\* st = [partial_excess, min, max, num_mins]
symbol_step(b, symbol, llimit, st) ==
  LET pe == ToInt16(IF bit_array_get_bit(b, symbol) = 0
                      THEN st.partial_excess - 1
                      ELSE st.partial_excess + 1)
  IN IF symbol = llimit
       THEN [partial_excess |-> pe, min |-> pe, max |-> pe, num_mins |-> 1]
       ELSE [partial_excess |-> pe,
             min |-> IF pe < st.min THEN pe ELSE st.min,
             max |-> IF pe > st.max THEN pe ELSE st.max,
             num_mins |-> IF pe < st.min THEN 1
                          ELSE IF pe = st.min THEN ToInt16(st.num_mins + 1)
                          ELSE st.num_mins]

\* line 138: for(symbol=llimit; symbol<ulimit; symbol++), the iterations
\* lo..hi-1 in order (split in halves to keep the evaluation shallow)
RECURSIVE symbol_loop(_, _, _, _, _)
symbol_loop(b, lo, hi, llimit, st) ==
  IF lo >= hi THEN st
  ELSE IF hi = lo + 1 THEN symbol_step(b, lo, llimit, st)
  ELSE LET mid == (lo + hi) \div 2
           left == symbol_loop(b, lo, mid, llimit, st)
       IN IF left.min <= left.max
            THEN symbol_loop(b, mid, hi, llimit, left)
            ELSE symbol_loop(b, mid, hi, llimit, left)

\* lines 122-163: one chunk of a thread, entered with the partial_excess,
\* min and max the previous chunk left
chunk_step(b, p, thread, chunk, st) ==
  symbol_loop(b, llimit_of(b.n, p, thread, chunk),
              ulimit_of(b.n, p, thread, chunk),
              llimit_of(b.n, p, thread, chunk),
              [st EXCEPT !.num_mins = 1])

\* lines 118-163: what one thread computes for its chunks lo..hi-1, in
\* order: acc.out is the sequence of [partial_excess, min, max, num_mins] it
\* stores at lines 164-167, acc.st the last of them (split in halves to keep
\* the evaluation shallow)
RECURSIVE chunk_loop(_, _, _, _, _, _)
chunk_loop(b, p, thread, lo, hi, acc) ==
  IF lo >= hi THEN acc
  ELSE IF hi = lo + 1
    THEN LET r == chunk_step(b, p, thread, lo, acc.st)
         IN [st |-> r, out |-> Append(acc.out, r)]
  ELSE LET mid == (lo + hi) \div 2
           left == chunk_loop(b, p, thread, lo, mid, acc)
       IN IF Len(left.out) >= 0
            THEN chunk_loop(b, p, thread, mid, hi, left)
            ELSE chunk_loop(b, p, thread, mid, hi, left)

thread_chunks(b, p, thread) ==
  chunk_loop(b, p, thread, 0, chunk_limit(b.n, p, thread),
             [st |-> [partial_excess |-> 0, min |-> 0, max |-> 0, num_mins |-> 1],
              out |-> << >>]).out

\* The inputs of the model, and thread_chunks over them (evaluated once).
Inputs ==
  UNION { { [n |-> len, wrap |-> w, pad |-> bd.pad] : w \in Wraps(len), bd \in Builds }
          : len \in { l \in Lengths : l > s } }

ThreadChunks ==
  [b \in Inputs |->
     [p \in 1..MaxP |->
        [thread \in 0..(p - 1) |-> thread_chunks(b, p, thread)]]]

\* cells STEP 2.1 writes for one thread (lines 164-167)
Pass1Writes(thread) ==
  UNION { { <<thread, "e_prime", thread * chunks_per_thread + c>>,
            <<thread, "m_prime", offset + thread * chunks_per_thread + c>>,
            <<thread, "M_prime", offset + thread * chunks_per_thread + c>>,
            <<thread, "n_prime", offset + thread * chunks_per_thread + c>> }
          : c \in 0..(chunk_limit(n, num_threads, thread) - 1) }

\* bits of B a thread reads in STEP 2.1 at or after n (line 140)
Pass1BitsOutside(thread) ==
  IF \E c \in 0..(chunk_limit(n, num_threads, thread) - 1) :
        /\ llimit_of(n, num_threads, thread, c) < ulimit_of(n, num_threads, thread, c)
        /\ ulimit_of(n, num_threads, thread, c) > n
    THEN { <<"B", "read", "pass1">> } ELSE {}

\* lines 109-169: one iteration of the cilk_for of STEP 2.1
Pass1(thread) ==
  /\ pc = "pass1"
  /\ thread \notin finished
  /\ \E out \in { IF B \in Inputs THEN ThreadChunks[B][num_threads][thread]
                   ELSE thread_chunks(B, num_threads, thread) } :
     LET base == thread * chunks_per_thread
         mine(i) == i - base >= 0 /\ i - base < Len(out)
     IN /\ e_prime' = [i \in DOMAIN e_prime |->
                         IF mine(i) THEN out[i - base + 1].partial_excess
                         ELSE e_prime[i]]
        /\ m_prime' = [i \in DOMAIN m_prime |->
                         IF mine(i - offset) THEN out[i - offset - base + 1].min
                         ELSE m_prime[i]]
        /\ M_prime' = [i \in DOMAIN M_prime |->
                         IF mine(i - offset) THEN out[i - offset - base + 1].max
                         ELSE M_prime[i]]
        /\ n_prime' = [i \in DOMAIN n_prime |->
                         IF mine(i - offset) THEN out[i - offset - base + 1].num_mins
                         ELSE n_prime[i]]
  /\ finished' = finished \cup {thread}
  /\ writes' = writes \cup Pass1Writes(thread)
  /\ reads' = reads
  /\ oob' = oob \cup Outside(Pass1Writes(thread), "write", "pass1")
                \cup Pass1BitsOutside(thread)
  /\ UNCHANGED <<n, wrap, build, num_threads, pc, T, exit_status, stderr, q, snap>>

\* STEP 2.2, lines 175-177: the sequential loop over thread = 1..num_threads-2
RECURSIVE pass2_loop(_, _)
pass2_loop(thread, e) ==
  IF thread >= num_threads - 1 THEN e
  ELSE LET dst == thread * chunks_per_thread + chunks_per_thread - 1
           src == (thread - 1) * chunks_per_thread + chunks_per_thread - 1
       IN pass2_loop(thread + 1, [e EXCEPT ![dst] = ToInt16(e[dst] + e[src])])

Pass2Cells ==
  UNION { { <<0, "e_prime", thread * chunks_per_thread + chunks_per_thread - 1>>,
            <<0, "e_prime", (thread - 1) * chunks_per_thread + chunks_per_thread - 1>> }
          : thread \in 1..(num_threads - 2) }

\* the join of the cilk_for of STEP 2.1, then lines 175-177
Pass2 ==
  /\ pc = "pass1"
  /\ finished = 0..(num_threads - 1)
  /\ e_prime' = pass2_loop(1, e_prime)
  /\ pc' = "pass3"
  /\ finished' = {} /\ writes' = {} /\ reads' = {}
  /\ oob' = oob \cup Outside(Pass2Cells, "write", "pass2")
  /\ UNCHANGED <<n, wrap, build, num_threads, m_prime, M_prime, n_prime, T,
                 exit_status, stderr, q, snap>>

\* mutant of pass3_adds_e: every thread adds to e_prime at every chunk
pass3_adds_e_always(thread, chunk) == thread >= 1 /\ chunk >= 0

\* line 186: does the thread add to e_prime at this chunk
pass3_adds_e(thread, chunk) ==
  thread = num_threads - 1 \/ chunk < chunks_per_thread - 1

\* lines 187-190 and the test of line 186: one chunk of one thread,
\* mem = [e, m, M, n]
pass3_chunk(thread, chunk, mem) ==
  LET c == thread * chunks_per_thread + chunk
      src == (thread - 1) * chunks_per_thread + chunks_per_thread - 1
      e1 == IF pass3_adds_e(thread, chunk)
              THEN [mem.e EXCEPT ![c] = ToInt16(mem.e[c] + mem.e[src])]
              ELSE mem.e
      m1 == [mem.m EXCEPT ![offset + c] = ToInt16(mem.m[offset + c] + e1[src])]
      M1 == [mem.M EXCEPT ![offset + c] = ToInt16(mem.M[offset + c] + e1[src])]
  IN [e |-> e1, m |-> m1, M |-> M1, n |-> mem.n]

\* line 185: for(chunk=0; chunk < chunks_per_thread; chunk++), the
\* iterations lo..hi-1 in order (split in halves to keep the evaluation
\* shallow)
RECURSIVE pass3_loop(_, _, _, _)
pass3_loop(thread, lo, hi, mem) ==
  IF lo >= hi THEN mem
  ELSE IF hi = lo + 1 THEN pass3_chunk(thread, lo, mem)
  ELSE LET mid == (lo + hi) \div 2
           left == pass3_loop(thread, lo, mid, mem)
       IN IF DOMAIN left.e = DOMAIN mem.e
            THEN pass3_loop(thread, mid, hi, left)
            ELSE pass3_loop(thread, mid, hi, left)

Pass3Writes(thread) ==
  UNION { { <<thread, "m_prime", offset + thread * chunks_per_thread + c>>,
            <<thread, "M_prime", offset + thread * chunks_per_thread + c>> }
          \cup (IF pass3_adds_e(thread, c)
                  THEN { <<thread, "e_prime", thread * chunks_per_thread + c>> }
                  ELSE {})
          : c \in 0..(chunks_per_thread - 1) }

Pass3Reads(thread) ==
  Pass3Writes(thread)
    \cup { <<thread, "e_prime", (thread - 1) * chunks_per_thread + chunks_per_thread - 1>> }

\* lines 179-192: one iteration of the cilk_for of STEP 2.2
Pass3(thread) ==
  /\ pc = "pass3"
  /\ thread \notin finished
  /\ LET mem == pass3_loop(thread, 0, chunks_per_thread, Mem)
     IN /\ e_prime' = mem.e
        /\ m_prime' = mem.m
        /\ M_prime' = mem.M
  /\ finished' = finished \cup {thread}
  /\ writes' = writes \cup Pass3Writes(thread)
  /\ reads' = reads \cup Pass3Reads(thread)
  /\ oob' = oob \cup Outside(Pass3Writes(thread), "write", "pass3")
                \cup Outside(Pass3Reads(thread), "read", "pass3")
  /\ UNCHANGED <<n, wrap, build, num_threads, pc, n_prime, T, exit_status,
                 stderr, q, snap>>

\* the join of the cilk_for of STEP 2.2; lines 198-204 set p_level and
\* num_subtrees
Join3 ==
  /\ pc = "pass3"
  /\ finished = 1..(num_threads - 1)
  /\ pc' = "subtrees"
  /\ finished' = {} /\ writes' = {} /\ reads' = {}
  /\ UNCHANGED <<n, wrap, build, num_threads, e_prime, m_prime, M_prime, n_prime,
                 oob, T, exit_status, stderr, q, snap>>

\* mutant of child_step: a child with a larger maximum does not raise the
\* maximum of the node
child_step_keeps_max(pos, child, copy_n, mem) ==
  IF child = pos * k + 1
    THEN [e |-> mem.e,
          m |-> [mem.m EXCEPT ![pos] = mem.m[child]],
          M |-> [mem.M EXCEPT ![pos] = mem.M[child]],
          n |-> IF copy_n THEN [mem.n EXCEPT ![pos] = mem.n[child]] ELSE mem.n]
    ELSE [e |-> mem.e,
          m |-> IF mem.m[child] < mem.m[pos]
                  THEN [mem.m EXCEPT ![pos] = mem.m[child]] ELSE mem.m,
          M |-> mem.M,
          n |-> mem.n]

\* lines 219-234 (copy_n) and lines 250-264 (not copy_n): one child of pos
child_step(pos, child, copy_n, mem) ==
  IF child = pos * k + 1
    THEN [e |-> mem.e,
          m |-> [mem.m EXCEPT ![pos] = mem.m[child]],
          M |-> [mem.M EXCEPT ![pos] = mem.M[child]],
          n |-> IF copy_n THEN [mem.n EXCEPT ![pos] = mem.n[child]] ELSE mem.n]
    ELSE [e |-> mem.e,
          m |-> IF mem.m[child] < mem.m[pos]
                  THEN [mem.m EXCEPT ![pos] = mem.m[child]] ELSE mem.m,
          M |-> IF mem.M[child] > mem.M[pos]
                  THEN [mem.M EXCEPT ![pos] = mem.M[child]] ELSE mem.M,
          n |-> IF mem.m[child] < mem.m[pos]
                  THEN [mem.n EXCEPT ![pos] = 1]
                  ELSE IF mem.m[child] = mem.m[pos]
                         THEN [mem.n EXCEPT ![pos] = ToInt16(mem.n[pos] + 1)]
                         ELSE mem.n]

\* lines 218 and 249: for(child = lchild; (child <= rchild) && (child < n); child++)
RECURSIVE child_loop(_, _, _, _)
child_loop(pos, child, copy_n, mem) ==
  IF child > (pos + 1) * k \/ child >= n THEN mem
  ELSE child_loop(pos, child + 1, copy_n, child_step(pos, child, copy_n, mem))

\* lines 213-236 and 246-266: the nodes node..num_curr_nodes-1 of one
\* level, the first of the level at `first`, in order (split in halves to
\* keep the evaluation shallow)
RECURSIVE node_loop(_, _, _, _, _)
node_loop(first, node, num_curr_nodes, copy_n, mem) ==
  IF node >= num_curr_nodes THEN mem
  ELSE IF num_curr_nodes = node + 1
    THEN child_loop(first + node, (first + node) * k + 1, copy_n, mem)
  ELSE LET mid == (node + num_curr_nodes) \div 2
           left == node_loop(first, node, mid, copy_n, mem)
       IN IF DOMAIN left.m = DOMAIN mem.m
            THEN node_loop(first, mid, num_curr_nodes, copy_n, left)
            ELSE node_loop(first, mid, num_curr_nodes, copy_n, left)

\* line 214: position of the first node of a subtree at a level
subtree_first(subtree, lvl) ==
  pow(k, lvl) - 1 + subtree * pow(k, lvl - p_level)

\* lines 208-237: the levels heigh-1 .. p_level of one subtree
RECURSIVE subtree_levels(_, _, _)
subtree_levels(subtree, lvl, mem) ==
  IF lvl < p_level THEN mem
  ELSE LET filled == node_loop(subtree_first(subtree, lvl), 0,
                               pow(k, lvl - p_level), TRUE, mem)
       IN IF DOMAIN filled.m = DOMAIN mem.m
            THEN subtree_levels(subtree, lvl - 1, filled)
            ELSE subtree_levels(subtree, lvl - 1, filled)

\* the nodes a subtree fills
SubtreeNodes(subtree) ==
  UNION { { subtree_first(subtree, lvl) + node : node \in 0..(pow(k, lvl - p_level) - 1) }
          : lvl \in p_level..(heigh - 1) }

\* the children the loop at lines 218 / 249 visits for a node
Children(pos) == { c \in (pos * k + 1)..((pos + 1) * k) : c < n }

NodeWrites(w, nodes) ==
  UNION { IF Children(pos) = {} THEN {}
          ELSE { <<w, "m_prime", pos>>, <<w, "M_prime", pos>>, <<w, "n_prime", pos>> }
          : pos \in nodes }

NodeReads(w, nodes) ==
  UNION { UNION { { <<w, "m_prime", c>>, <<w, "M_prime", c>>, <<w, "n_prime", c>> }
                  : c \in Children(pos) }
          : pos \in nodes }

\* lines 206-238: one iteration of the cilk_for of STEP 2.3
Subtree(subtree) ==
  /\ pc = "subtrees"
  /\ subtree \notin finished
  /\ LET mem == subtree_levels(subtree, heigh - 1, Mem)
     IN /\ m_prime' = mem.m
        /\ M_prime' = mem.M
        /\ n_prime' = mem.n
  /\ finished' = finished \cup {subtree}
  /\ writes' = writes \cup NodeWrites(subtree, SubtreeNodes(subtree))
  /\ reads' = reads \cup NodeReads(subtree, SubtreeNodes(subtree))
                    \cup NodeWrites(subtree, SubtreeNodes(subtree))
  /\ oob' = oob \cup Outside(NodeWrites(subtree, SubtreeNodes(subtree)), "write", "subtrees")
                \cup Outside(NodeReads(subtree, SubtreeNodes(subtree)), "read", "subtrees")
  /\ UNCHANGED <<n, wrap, build, num_threads, pc, e_prime, T, exit_status,
                 stderr, q, snap>>

\* lines 241-267: the levels p_level-1 .. 0, sequentially
RECURSIVE top_levels(_, _)
top_levels(lvl, mem) ==
  IF lvl < 0 THEN mem
  ELSE LET filled == node_loop((pow(k, lvl) - 1) \div (k - 1), 0, pow(k, lvl),
                               FALSE, mem)
       IN IF DOMAIN filled.m = DOMAIN mem.m
            THEN top_levels(lvl - 1, filled)
            ELSE top_levels(lvl - 1, filled)

TopNodes ==
  UNION { { (pow(k, lvl) - 1) \div (k - 1) + node : node \in 0..(pow(k, lvl) - 1) }
          : lvl \in 0..(p_level - 1) }

\* the join of the cilk_for of STEP 2.3, then lines 240-273
Top ==
  /\ pc = "subtrees"
  /\ finished = 0..(num_subtrees - 1)
  /\ LET mem == top_levels(p_level - 1, Mem)
     IN /\ m_prime' = mem.m
        /\ M_prime' = mem.M
        /\ n_prime' = mem.n
  /\ T' = TRUE
  /\ pc' = "done"
  /\ finished' = {} /\ writes' = {} /\ reads' = {}
  /\ oob' = oob \cup Outside(NodeWrites(0, TopNodes), "write", "top")
                \cup Outside(NodeReads(0, TopNodes), "read", "top")
  /\ UNCHANGED <<n, wrap, build, num_threads, e_prime, exit_status, stderr, q, snap>>

\* ------------------------------------------------------------ the queries
\* binary_trees.h: navigation in the implicit k-ary tree
is_root(v) == v = 0
is_leaf(v) == v >= offset
parent(v) == (v - 1) \div k
left_child(v) == v * k + 1
right_sibling(v) == v + 1
is_left_child(v) == v = k * parent(v) + 1

\* lookup_tables.h: T->word_sum[w], the opens minus the closes of a byte
RECURSIVE popcount(_, _)
popcount(w, bits) == IF bits = 0 THEN 0 ELSE (w % 2) + popcount(w \div 2, bits - 1)

word_sum(w) == 2 * popcount(w, 8) - 8

\* lookup_tables.h: T->near_fwd_pos[(e << 8) + w], the first bit of the byte
\* (from the least significant one) at which the running value, e - 8
\* before the byte, minus one per open and plus one per close, is 0; else 8
RECURSIVE near_fwd_scan(_, _, _)
near_fwd_scan(v, w, pos) ==
  IF pos >= 8 THEN 8
  ELSE LET v1 == v + 1 - 2 * (w % 2)
       IN IF v1 = 0 THEN pos ELSE near_fwd_scan(v1, w \div 2, pos + 1)

near_fwd_pos(e, w) == near_fwd_scan(e - 8, w, 0)

\* bits j .. j+7 of b as a byte, bit j the least significant
RECURSIVE byte_of(_, _, _)
byte_of(b, j, bits) ==
  IF bits = 0 THEN 0
  ELSE bit_array_get_bit(b, j) + 2 * byte_of(b, j + 1, bits - 1)

\* lines 300 and 306: ((*(B->words+(j>>5)))>>(j&0xFF))&0xFF over 32-bit words.
\* The shift count j&0xFF is j modulo 256: from 32 on the shift is undefined,
\* and the build either reduces the count modulo 32 or yields 0.
fetch_byte(b, shift, j) ==
  IF j % 256 < 32 \/ shift = "masked" THEN byte_of(b, j, 8) ELSE 0

\* lines 287-291 and 310-315: for(; j < hi; j++) over single bits;
\* [found, j] or [found |-> FALSE, excess]
RECURSIVE bit_scan(_, _, _, _)
bit_scan(b, j, hi, ex) ==
  IF j >= hi THEN [found |-> FALSE, j |-> j, excess |-> ex]
  ELSE LET e1 == ToInt8(ex + 1 - 2 * bit_array_get_bit(b, j))
       IN IF e1 = 0 THEN [found |-> TRUE, j |-> j, excess |-> e1]
          ELSE bit_scan(b, j + 1, hi, e1)

\* lines 298-307: for(j=llimit; j<rlimit; j+=8) over bytes
RECURSIVE byte_scan(_, _, _, _, _)
byte_scan(b, shift, j, rlimit, ex) ==
  IF j >= rlimit THEN [found |-> FALSE, j |-> j, excess |-> ex]
  ELSE LET w == fetch_byte(b, shift, j)
           x == IF ex >= 0 /\ ex <= 16 THEN near_fwd_pos(ex, w) ELSE 8
       IN IF x < 8 THEN [found |-> TRUE, j |-> j + x, excess |-> ex]
          ELSE byte_scan(b, shift, j + 8, rlimit, ToInt8(ex - word_sum(w)))

\* lines 279-318
leaves_check(b, shift, i, d) ==
  LET end == (i \div s + 1) * s
      llimit == ((i + 7) \div 8) * 8
      rlimit == (end \div 8) * 8
      r1 == bit_scan(b, i + 1, Min2(end, llimit), d)
      e2 == ToInt8(IF llimit = i THEN r1.excess + 9 ELSE r1.excess + 8)
      r2 == byte_scan(b, shift, llimit, rlimit, e2)
      r3 == bit_scan(b, Max2(llimit, rlimit), end, ToInt8(r2.excess - 8))
  IN IF r1.found THEN r1.j
     ELSE IF r2.found THEN r2.j
     ELSE IF r3.found THEN r3.j
     ELSE i - 1

\* lines 336-339: prev_excess after for(j=chunk*s; j <= i; j++), the
\* iterations lo..hi-1 in order (split in halves, as symbol_loop)
RECURSIVE prev_excess_loop(_, _, _, _)
prev_excess_loop(b, lo, hi, acc) ==
  IF lo >= hi THEN acc
  ELSE IF hi = lo + 1 THEN ToInt8(acc + 1 - 2 * bit_array_get_bit(b, lo))
  ELSE LET mid == (lo + hi) \div 2
           left == prev_excess_loop(b, lo, mid, acc)
       IN IF left >= 0
            THEN prev_excess_loop(b, mid, hi, left)
            ELSE prev_excess_loop(b, mid, hi, left)

\* lines 349 and 364: m_prime[v] <= -excess-1 && -excess-1 <= M_prime[v]
in_range(mem, v, ex) == mem.m[v] <= -ex - 1 /\ -ex - 1 <= mem.M[v]

\* line 349: the cell of m_prime and M_prime the test of Case 2 reads for
\* the sibling j of the chunk
sibling_index(chunk, j) == chunk + j

\* lines 348-354: the loop over the siblings from j on; the position found,
\* or -1 with the value of j after the loop
RECURSIVE sibling_loop(_, _, _, _, _, _)
sibling_loop(b, shift, mem, chunk, j, ex) ==
  IF j >= k THEN [found |-> FALSE, j |-> j, output |-> -1]
  ELSE LET out == IF in_range(mem, sibling_index(chunk, j), ex)
                    THEN leaves_check(b, shift, s * (chunk + j), ex)
                    ELSE -1
       IN IF in_range(mem, sibling_index(chunk, j), ex) /\ out > s * (chunk + j)
            THEN [found |-> TRUE, j |-> j, output |-> out]
            ELSE sibling_loop(b, shift, mem, chunk, j + 1, ex)

\* lines 360-368: the node at which the climb from `node` stops, and the
\* nodes whose cells of m_prime and M_prime the climb has read
RECURSIVE go_up(_, _, _, _)
go_up(mem, node, ex, probed) ==
  IF is_root(node) THEN [node |-> node, probed |-> probed]
  ELSE IF is_left_child(node)
         THEN IF in_range(mem, right_sibling(node), ex)
                THEN [node |-> right_sibling(node),
                      probed |-> probed \cup {right_sibling(node)}]
                ELSE go_up(mem, parent(right_sibling(node)), ex,
                           probed \cup {right_sibling(node)})
         ELSE go_up(mem, parent(node), ex, probed)

\* lines 372-380: the leaf the descent from `node` reaches, or -1 where the
\* descent calls exit(EXIT_FAILURE), and the nodes whose cells of m_prime
\* and M_prime the descent has read
RECURSIVE go_down(_, _, _, _)
go_down(mem, node, ex, probed) ==
  IF is_leaf(node) THEN [node |-> node, probed |-> probed]
  ELSE IF in_range(mem, left_child(node), ex)
         THEN go_down(mem, left_child(node), ex, probed \cup {left_child(node)})
         ELSE IF in_range(mem, right_sibling(left_child(node)), ex)
                THEN go_down(mem, right_sibling(left_child(node)), ex,
                             probed \cup {left_child(node),
                                          right_sibling(left_child(node))})
                ELSE [node |-> -1,
                      probed |-> probed \cup {left_child(node),
                                              right_sibling(left_child(node))}]

\* lines 336-344: the value of excess after Case 1
excess_after_case1(b, mem, i) ==
  LET chunk == i \div s
      prev_excess == prev_excess_loop(b, chunk * s, i + 1, 0)
  IN IF chunk = 0 THEN prev_excess
     ELSE ToInt8(-mem.e[chunk - 1] + prev_excess)

\* lines 346-354: Case 2
case2(b, shift, mem, i) ==
  sibling_loop(b, shift, mem, i \div s, ((i \div s) % k) + 1,
               excess_after_case1(b, mem, i))

\* line 358: the initial node of the climb
initial_node(b, shift, mem, i) ==
  (pow(k, heigh) - 1) + case2(b, shift, mem, i).j - 1

\* lines 360-368: the climb of Case 3
climb(b, shift, mem, i) ==
  go_up(mem, initial_node(b, shift, mem, i), excess_after_case1(b, mem, i), {})

\* lines 372-380: the descent of Case 3
descent(b, shift, mem, i) ==
  go_down(mem, climb(b, shift, mem, i).node, excess_after_case1(b, mem, i), {})

\* lines 321-387: [kind, val]: kind "ret" with the value returned, "exit"
\* where the process exits, "undef" where the function ends without a return
fwd_search(b, shift, mem, i, d) ==
  LET chunk == i \div s
      output == leaves_check(b, shift, i, d)
      ex == excess_after_case1(b, mem, i)
      sib == case2(b, shift, mem, i)
      node == climb(b, shift, mem, i).node
      leaf == descent(b, shift, mem, i).node
      chunk3 == leaf - (pow(k, heigh) - 1)
      ex3 == ToInt8(-mem.e[chunk3 - 1] + ex)
  IN IF output > i THEN [kind |-> "ret", val |-> output]
     ELSE IF sib.found THEN [kind |-> "ret", val |-> sib.output]
     ELSE IF is_root(node) THEN [kind |-> "undef", val |-> 0]
     ELSE IF leaf = -1 THEN [kind |-> "exit", val |-> 1]
     ELSE [kind |-> "ret", val |-> leaves_check(b, shift, s * chunk3, ex3)]

\* the case in which fwd_search(B, i, d) ends: "A" (Case 1, line 330),
\* "B" (Case 2, line 352) or "C" (Case 3)
case_of(b, shift, mem, i, d) ==
  IF leaves_check(b, shift, i, d) > i THEN "A"
  ELSE IF case2(b, shift, mem, i).found THEN "B"
  ELSE "C"

\* lines 390-392
find_close(b, shift, mem, i) == fwd_search(b, shift, mem, i, -1)

\* positions and distances the queries are made with
QueryPos == { i \in {0, 1, 2, 8, s - 2, s - 1, s, n \div 2 - 1, n \div 2, n - 2, n - 1} :
                i >= 0 /\ i < n }
QueryDs == {0, 1}

\* the outcome r of a call becomes the state of the caller
Returns(op, i, d, r) ==
  /\ \E v \in (IF r.kind = "undef" THEN GarbageInts ELSE {r.val}) :
       q' = [op |-> op, i |-> i, d |-> d,
             ret |-> IF r.kind = "exit" THEN 0 ELSE v, kind |-> r.kind]
  /\ pc' = IF r.kind = "exit" THEN "exit" ELSE pc
  /\ exit_status' = IF r.kind = "exit" THEN r.val ELSE exit_status

\* mutant of FindClose: the seed excess of line 383 is stored into e_prime
FindCloseStores(i) ==
  /\ pc = "done"
  /\ q = NoQuery
  /\ Returns("find_close", i, -1, find_close(B, build.shift, Mem, i))
  /\ e_prime' = [e_prime EXCEPT ![i \div s] = ToInt16(-e_prime[i \div s] - 1)]
  /\ UNCHANGED <<n, wrap, build, num_threads, m_prime, M_prime, n_prime,
                 finished, writes, reads, oob, T, stderr, snap>>

\* a call find_close(B, i) after st_create has returned
FindClose(i) ==
  /\ pc = "done"
  /\ q = NoQuery
  /\ Returns("find_close", i, -1, find_close(B, build.shift, Mem, i))
  /\ UNCHANGED <<n, wrap, build, num_threads, e_prime, m_prime, M_prime, n_prime,
                 finished, writes, reads, oob, T, stderr, snap>>

\* a call fwd_search(B, i, d) after st_create has returned
FwdSearch(i, d) ==
  /\ pc = "done"
  /\ q = NoQuery
  /\ Returns("fwd_search", i, d, fwd_search(B, build.shift, Mem, i, d))
  /\ UNCHANGED <<n, wrap, build, num_threads, e_prime, m_prime, M_prime, n_prime,
                 finished, writes, reads, oob, T, stderr, snap>>

\* the caller takes the result of the last call; the next call may follow
Consume ==
  /\ pc = "done"
  /\ q # NoQuery
  /\ q' = NoQuery
  /\ UNCHANGED <<n, wrap, build, num_threads, pc, e_prime, m_prime, M_prime,
                 n_prime, finished, writes, reads, oob, T, exit_status, stderr, snap>>

\* the arrays as st_create allocated them (without the cells behind them)
Allocated ==
  [e |-> [i \in 0..(num_chunks - 1) |-> e_prime[i]],
   m |-> [i \in 0..(num_chunks + offset - 1) |-> m_prime[i]],
   M |-> [i \in 0..(num_chunks + offset - 1) |-> M_prime[i]],
   n |-> [i \in 0..(num_chunks + offset - 1) |-> n_prime[i]]]

\* after a construction by one worker (the reference) the construction is
\* repeated on the same B with some number of workers; the arrays of the
\* reference are kept for comparison
Restart ==
  /\ pc = "done"
  /\ num_threads = 1
  /\ q = NoQuery
  /\ snap = << >>
  /\ snap' = << Allocated >>
  /\ num_threads' \in 1..MaxP
  /\ pc' = "start"
  /\ e_prime' = << >> /\ m_prime' = << >> /\ M_prime' = << >> /\ n_prime' = << >>
  /\ T' = FALSE
  /\ UNCHANGED <<n, wrap, build, finished, writes, reads, oob, exit_status,
                 stderr, q>>

\* ------------------------------------------------- the naive reference
\* excess(lo), .., excess(hi-1) of b by a sequential scan that enters lo
\* with excess `before`
RECURSIVE excess_scan(_, _, _, _)
excess_scan(b, lo, hi, before) ==
  IF lo >= hi THEN << >>
  ELSE IF hi = lo + 1 THEN << before + 2 * Bit(b, lo) - 1 >>
  ELSE LET mid == (lo + hi) \div 2
           left == excess_scan(b, lo, mid, before)
       IN left \o excess_scan(b, mid, hi, left[Len(left)])

ExcessTable == [b \in Inputs |-> excess_scan(b, 0, b.n, 0)]

\* excess(j) of the input, 0 <= j < n
excess(j) == ExcessTable[B][j + 1]

\* excess(0), .., excess(n-1) of the input, long inputs included
ExcessSeq == IF B \in Inputs THEN ExcessTable[B] ELSE excess_scan(B, 0, n, 0)

\* positions of chunk c of an input of length len
ChunkPos(len, c) == (c * s)..(Min2(len, (c + 1) * s) - 1)

\* minimum, maximum and number of minima of the excess over chunk c
NaiveChunk(ex, len, c) ==
  LET vals == { ex[j + 1] : j \in ChunkPos(len, c) }
      lo == CHOOSE v \in vals : \A v2 \in vals : v <= v2
      hi == CHOOSE v \in vals : \A v2 \in vals : v >= v2
  IN [min |-> lo, max |-> hi,
      count |-> Cardinality({ j \in ChunkPos(len, c) : ex[j + 1] = lo })]

NaiveTable ==
  [b \in Inputs |->
     [c \in 0..(NumChunks(b.n) - 1) |-> NaiveChunk(ExcessTable[b], b.n, c)]]

NaiveMin(c) == NaiveTable[B][c].min
NaiveMax(c) == NaiveTable[B][c].max
NaiveCount(c) == NaiveTable[B][c].count

\* the smallest j > i with excess(j) - excess(i) = d, or -1
NaiveFwd(i, d) ==
  LET hits == { j \in (i + 1)..(n - 1) : excess(j) - excess(i) = d }
  IN IF hits = {} THEN -1
     ELSE CHOOSE j \in hits : \A j2 \in hits : j <= j2

\* last position of chunk c
ChunkEnd(c) == Min2(n, (c + 1) * s) - 1

\* the chunks whose leaf lies under node v
RECURSIVE IsUnder(_, _)
IsUnder(v, u) == u = v \/ (u > v /\ IsUnder(v, parent(u)))

Under(v) == { c \in 0..(num_chunks - 1) : IsUnder(v, offset + c) }

RECURSIVE SumOver(_, _)
SumOver(f, S) ==
  IF S = {} THEN 0
  ELSE LET x == CHOOSE y \in S : TRUE IN f[x] + SumOver(f, S \ {x})

\* ================================================================ claims

\* C1: after st_create, for every opening parenthesis i, find_close(B, i)
\* returns the matching close, the smallest j > i with
\* excess(j) = excess(i) - 1, whatever the case (A, B, C) and the depth.
C1_FindCloseIsMatch ==
  (q.op = "find_close" /\ Bit(B, q.i) = 1)
    => (q.kind = "ret" /\ q.ret = NaiveFwd(q.i, -1))

\* C2: after st_create, for every chunk c and every worker count,
\* e_prime[c] is the excess at the last bit of chunk c by a naive scan.
C2_EPrimeIsGlobalExcess ==
  pc = "done" => \A c \in 0..(num_chunks - 1) : e_prime[c] = excess(ChunkEnd(c))

\* C3: after st_create, for every chunk c and every worker count, the leaf
\* entries hold the minimum excess, the maximum excess and the number of
\* positions at the minimum over the positions of chunk c.
C3_LeafAggregates ==
  pc = "done" =>
    \A c \in 0..(num_chunks - 1) :
      /\ m_prime[offset + c] = NaiveMin(c)
      /\ M_prime[offset + c] = NaiveMax(c)
      /\ n_prime[offset + c] = NaiveCount(c)

\* C4: after st_create, every internal node v covering chunks holds the
\* minimum of the leaf minima, the maximum of the leaf maxima and the SUM of
\* the leaf counts of the chunks whose minimum is the node's minimum.
C4_InternalAggregates ==
  pc = "done" =>
    \A v \in 0..(offset - 1) :
      Under(v) # {} =>
        /\ \E c \in Under(v) : m_prime[v] = m_prime[offset + c]
        /\ \A c \in Under(v) : m_prime[v] <= m_prime[offset + c]
        /\ \E c \in Under(v) : M_prime[v] = M_prime[offset + c]
        /\ \A c \in Under(v) : M_prime[v] >= M_prime[offset + c]
        /\ n_prime[v] =
             SumOver([c \in Under(v) |-> n_prime[offset + c]],
                     { c \in Under(v) : m_prime[offset + c] = m_prime[v] })

\* C5: for a fixed B the arrays st_create leaves (and with them the result
\* of every query) are the same for every worker count and interleaving:
\* a construction repeated on B leaves the arrays of the reference.
C5_SameArraysForEveryP ==
  (pc = "done" /\ snap # << >>) => Allocated = snap[1]

\* C6: st_create on n <= s reports an error outcome and allocates nothing;
\* on n > s the construction proceeds.
C6_SmallInputIsAnError ==
  /\ (n <= s /\ pc # "start") =>
       /\ pc = "exit" /\ stderr /\ exit_status > 0
       /\ e_prime = << >> /\ m_prime = << >> /\ M_prime = << >> /\ n_prime = << >>
  /\ (n > s /\ pc # "start") => e_prime # << >>

\* C7: when no j > i has excess(j) - excess(i) = d, fwd_search returns the
\* not-found sentinel, a negative position, and never an undefined value.
C7_NotFoundIsSentinel ==
  (q.op # "none" /\ NaiveFwd(q.i, q.d) = -1) => (q.kind = "ret" /\ q.ret < 0)

\* C8: find_close on a closing parenthesis returns the not-found sentinel.
C8_CloseIsNotFound ==
  (q.op = "find_close" /\ Bit(B, q.i) = 0) => (q.kind = "ret" /\ q.ret < 0)

\* C9: in each parallel loop of st_create every array index is written by
\* at most one worker, and no worker reads an index another worker writes
\* in the same loop.
C9_NoRace ==
  /\ \A w1 \in writes, w2 \in writes :
       (w1[2] = w2[2] /\ w1[3] = w2[3]) => w1[1] = w2[1]
  /\ \A r \in reads, w \in writes :
       (r[2] = w[2] /\ r[3] = w[3]) => r[1] = w[1]

\* C9 witness: all workers of the loop of STEP 2.2 have run, there are at
\* least three of them, and a worker that is not the last one has written
\* e_prime in this loop.
C9_Witness ==
  /\ pc = "pass3"
  /\ num_threads >= 3
  /\ finished = 1..(num_threads - 1)
  /\ \E w \in writes : w[2] = "e_prime" /\ w[1] < num_threads - 1
  /\ \E r \in reads : r[2] = "e_prime" /\ r[3] = chunks_per_thread - 1

\* C10: once st_create has returned, a call of find_close or fwd_search
\* changes no element of e_prime, m_prime, M_prime, n_prime nor B.
C10_QueriesReadOnly ==
  [][(pc = "done" /\ q.op = "none" /\ q'.op # "none")
       => /\ e_prime' = e_prime /\ m_prime' = m_prime
          /\ M_prime' = M_prime /\ n_prime' = n_prime
          /\ n' = n /\ wrap' = wrap]_vars

\* C10 witness: a query that went up and down the tree has returned.
C10_Witness ==
  /\ pc = "done"
  /\ q.op = "find_close" /\ q.kind = "ret"
  /\ q.i < s /\ q.ret >= 2 * s

\* the worker count divides the chunks, leaves one level at least to each
\* subtree, and the tree over the chunks is full
SoundShape ==
  /\ num_threads * chunks_per_thread = num_chunks
  /\ p_level <= heigh
  /\ pow(k, heigh) = num_chunks

\* the maximum of excess(j) over B
MaxExcess ==
  LET vals == { NaiveMax(c) : c \in 0..(num_chunks - 1) }
  IN CHOOSE v \in vals : \A v2 \in vals : v >= v2

C12_SixteenBitsSuffice ==
  (/\ pc = "done"
   /\ num_threads * chunks_per_thread = num_chunks
   /\ p_level <= heigh) =>
    LET ex == ExcessSeq
    IN \A c \in 0..(num_chunks - 1) :
         /\ e_prime[c] = ex[ChunkEnd(c) + 1]
         /\ m_prime[offset + c] <= ex[ChunkEnd(c) + 1]
         /\ M_prime[offset + c] >= ex[ChunkEnd(c) + 1]

\* C13: worker t summarises in STEP 2.1 and updates in STEP 2.2 only chunks
\* in [t*cpw, min((t+1)*cpw, C)), every chunk is summarised by some worker,
\* and no worker reads a bit of B at or after n, writes e_prime at an index
\* >= C or writes m_prime/M_prime/n_prime at an index >= I + C.
C13_WorkersOwnTheirChunks ==
  /\ \A o \in oob : o[3] \notin {"pass1", "pass3"}
  /\ pc \in {"pass1", "pass3"} =>
       \A w \in writes :
         w[2] = "e_prime" =>
           /\ w[1] * chunks_per_thread <= w[3]
           /\ w[3] < Min2((w[1] + 1) * chunks_per_thread, num_chunks)
  /\ (pc = "pass1" /\ finished = 0..(num_threads - 1)) =>
       \A c \in 0..(num_chunks - 1) :
         \E w \in writes : w[2] = "e_prime" /\ w[3] = c

\* C14: when the sequential loop of STEP 2.2 has finished, and as long as
\* the parallel loop of STEP 2.2 runs, for every worker t in [0, p-1) the
\* entry e_prime[t*cpw + cpw - 1] (the entry worker t+1 reads as Delta) is
\* the global excess at the end of worker t's slice, for every p.
C14_BoundariesAreGlobal ==
  pc = "pass3" =>
    \A t \in 0..(num_threads - 2) :
      LET c == t * chunks_per_thread + chunks_per_thread - 1
      IN c < num_chunks => e_prime[c] = excess(ChunkEnd(c))

\* C15: in STEP 2.3 (parallel subtrees and sequential top levels) no cell
\* at an index >= I + C is read from m_prime, M_prime or n_prime, and only
\* positions < I are written (no leaf is overwritten, p_level > heigh
\* included).
C15_ChildrenBeyondAreSkipped ==
  /\ \A o \in oob : o[3] \notin {"subtrees", "top"}
  /\ pc = "subtrees" => \A w \in writes : w[3] < offset
  /\ pc \in {"subtrees", "done"} =>
       \A v \in TopNodes : Children(v) # {} => v < offset

\* C16: in Case 3 of fwd_search the climb starts at the leaf of the chunk
\* that holds i, the node offset + i \div s, for every i, and every node the
\* climb probes is a right sibling of an ancestor of that leaf, so that no
\* probed subtree holds a position <= i
C16_ClimbStartsAtOwnLeaf ==
  (q.op # "none" /\ case_of(B, build.shift, Mem, q.i, q.d) = "C") =>
    /\ initial_node(B, build.shift, Mem, q.i) = offset + q.i \div s
    /\ \A v \in climb(B, build.shift, Mem, q.i).probed :
         \A c \in Under(v) : c > q.i \div s

\* C17: in Case 2 of fwd_search the cells compared with the target are those
\* of the leaf of the chunk to the right of the chunk of i,
\* m_prime[offset + chunk + 1] and M_prime[offset + chunk + 1], and they are
\* compared only where the chunk is a left child
C17_SiblingLeafIsCompared ==
  (q.op # "none" /\ case_of(B, build.shift, Mem, q.i, q.d) # "A"
     /\ (q.i \div s) % k = 0) =>
    sibling_index(q.i \div s, 1) = offset + q.i \div s + 1

\* the cells of m_prime and M_prime that Case 3 of fwd_search(B, i, d) reads
case3_nodes(i) ==
  climb(B, build.shift, Mem, i).probed \cup
    (IF is_root(climb(B, build.shift, Mem, i).node) THEN {}
     ELSE descent(B, build.shift, Mem, i).probed)

\* the cells of e_prime that the seed of Case 3 (line 383) reads
case3_seed_cells(i) ==
  IF is_root(climb(B, build.shift, Mem, i).node)
       \/ descent(B, build.shift, Mem, i).node = -1
    THEN {}
    ELSE { descent(B, build.shift, Mem, i).node - (pow(k, heigh) - 1) - 1 }

\* C18: for find_close on an opening parenthesis the descent of Case 3 never
\* reaches exit(EXIT_FAILURE), and the climb, the descent and the seed read no
\* cell of m_prime and M_prime outside 0..(offset + num_chunks - 1) and no
\* cell of e_prime outside 0..(num_chunks - 1)
C18_DescentNeverFails ==
  (q.op = "find_close" /\ Bit(B, q.i) = 1) =>
    /\ q.kind # "exit"
    /\ case_of(B, build.shift, Mem, q.i, q.d) = "C" =>
         /\ \A v \in case3_nodes(q.i) : 0 <= v /\ v < offset + num_chunks
         /\ \A c \in case3_seed_cells(q.i) : 0 <= c /\ c < num_chunks

\* C19: the excess values that fwd_search holds in 8-bit variables do not
\* wrap around: for every find_close on an opening position i that goes on
\* to Case 2 or Case 3, the target -excess-1 of those cases is the true
\* excess(i) + d, with d = -1
C19_TargetIsTrueExcess ==
  (q.op = "find_close" /\ Bit(B, q.i) = 1
     /\ case_of(B, build.shift, Mem, q.i, q.d) # "A") =>
    -excess_after_case1(B, Mem, q.i) - 1 = excess(q.i) + q.d

Next ==
  \/ Create
  \/ \E thread \in 0..(num_threads - 1) : Pass1(thread)
  \/ Pass2
  \/ \E thread \in 1..(num_threads - 1) : Pass3(thread)
  \/ Join3
  \/ \E subtree \in 0..(num_subtrees - 1) : Subtree(subtree)
  \/ Top
  \/ \E i \in QueryPos : FindClose(i)
  \/ \E i \in QueryPos, d \in QueryDs : FwdSearch(i, d)
  \/ Consume
  \/ Restart

Spec == Init /\ [][Next]_vars
\* the construction and the queries on the long input
NextWide ==
  \/ Create
  \/ \E thread \in 0..(num_threads - 1) : Pass1(thread)
  \/ Pass2
  \/ \E thread \in 1..(num_threads - 1) : Pass3(thread)
  \/ Join3
  \/ \E subtree \in 0..(num_subtrees - 1) : Subtree(subtree)
  \/ Top
  \/ \E i \in QueryPos : FindClose(i)
  \/ \E i \in QueryPos, d \in QueryDs : FwdSearch(i, d)
  \/ Consume

SpecWide == InitWide /\ [][NextWide]_vars
====
